---- MODULE Spec2Model ----
(***************************************************************************)
(* Model of the RAG chatbot backend: the HTTP server (server.js: /chat,    *)
(* /chat/history, /chat/session/:sessionId over a Redis list per session)  *)
(* and the ingestion script (ingest.js: main, chunkText, upsertPoints).    *)
(*                                                                         *)
(* A JavaScript string is a sequence of one-element tokens, so that        *)
(* concatenation is \o and the empty string is << >>.                      *)
(***************************************************************************)
EXTENDS Integers, Sequences, FiniteSets, TLC

(***************************************************************************)
(* Bounds of the model.                                                    *)
(***************************************************************************)
\* fragments one generation stream yields at most
MaxFrags == 2
\* entries the session store holds at most (POST /chat is not issued beyond it)
MaxTurns == 4
\* clock steps per TTL period
TicksPerTTL == 1
\* Redis commands that fail in one run at most
MaxFaults == 1

(***************************************************************************)
(* Program constants.                                                      *)
(***************************************************************************)
\* redisClient.expire(key, 3600)
TTL_SECONDS == 3600
\* qdrantClient.search(..., limit: 3)
SEARCH_LIMIT == 3

Quantum == TTL_SECONDS \div TicksPerTTL
IdleCap == TTL_SECONDS + Quantum

\* request slots: the /chat requests that can be in flight side by side
Slots == {1, 2}
\* the slots of a client that awaits each response before its next request
SeqSlots == {1}

(***************************************************************************)
(* Input alphabets.                                                        *)
(***************************************************************************)
Queries == {<<"x">>, <<"y">>}
SuppliedIds == {<<"a", "b", "c">>}
\* values crypto.randomBytes(16).toString('hex') can return
Tokens == {<<"t", "0">>}
SessionIds == SuppliedIds \cup Tokens
\* the text of the i-th fragment a generation stream yields
FragText == <<"a", "b", "c", "d">>
Fragment(i) == <<FragText[((i - 1) % Len(FragText)) + 1]>>
\* what qdrantClient.search can return: at most SEARCH_LIMIT results
SearchResults ==
    {results \in {<< >>,
                  <<[payload |-> [text |-> <<"p">>]], [payload |-> [text |-> <<"r">>]]>>} :
        Len(results) <= SEARCH_LIMIT}

FALLBACK_TEXT == <<"No relevant news articles were found in the database. Please try a different query.">>
EMBED_FAIL_MSG == <<"Failed to get Jina embeddings. Please check your API key and network connection.">>
CATCH_MSG == <<"Failed to generate a response. Please check your API keys and configuration.">>
QUERY_REQUIRED == [error |-> <<"Query is required.">>]

VARIABLES
    store,      \* Redis: session id -> the list stored under session:<id> (<< >>: no key)
    ttl,        \* Redis: session id -> seconds until the key expires, -1: no expiry set
    idle,       \* session id -> seconds since the last rPush on the stored key (capped)
    req,        \* slot -> the /chat request running in it: position, locals, response
    seqLog,     \* session id -> the <<query, answer>> pairs of its completed /chat requests
    seqOnly,    \* session id -> only sequential successful /chat requests touched it
    cleared,    \* the last successful clear: its session and the entries it removed,
                \* until a /chat request on that session starts
    faults      \* Redis commands that have failed so far

serverVars == <<store, ttl, idle, req, seqLog, seqOnly, cleared, faults>>

\* ingest.js
VARIABLES
    ipc,                \* the await main is suspended at, or "done" / "failed"
    collection,         \* Qdrant: whether the collection exists, and point id -> point
    browser,            \* the puppeteer browser: "none", "open" or "closed"
    si,                 \* the index of the sitemap being processed (0: none yet)
    urls,               \* articleUrls of that sitemap
    ui,                 \* the index in urls of the article being processed
    content,            \* the page whose text fetchArticleContent returned, or "null"
    embeddings,         \* what getJinaEmbeddings returned for the chunks of content
    articlesProcessed,  \* the counter of main
    upsertedDocs,       \* the documents whose client.upsert call has returned
    resets,             \* the createCollection calls that have returned
    lastDoc             \* how the last document the run finished with ended

runVars == <<ipc, collection, browser, si, urls, ui, content, embeddings,
             articlesProcessed, upsertedDocs, resets, lastDoc>>

\* one call of chunkText
VARIABLES
    argText,            \* the text it is called with
    argMaxChars,        \* the maxChars it is called with
    result,             \* the chunks it returned
    called              \* whether it has returned

chunkVars == <<argText, argMaxChars, result, called>>

ingestVars == <<runVars, chunkVars>>

vars == <<serverVars, ingestVars>>

(***************************************************************************)
(* Pure helpers of server.js.                                              *)
(***************************************************************************)
\* JSON.stringify({user: q}) / JSON.stringify({bot: text}): one stored string
Stringify(turn) == <<"{", turn.role, ":">> \o <<turn.text>> \o <<"}">>

\* JSON.parse of one stored string
Parse(item) == [role |-> item[2], text |-> item[4]]

UserTurn(q) == [role |-> "user", text |-> q]
BotTurn(t) == [role |-> "bot", text |-> t]

\* the list after lPush: the item goes to the head
LPush(list, item) == <<item>> \o list

\* redisClient.rPush(key, item) on the list held under the key
RPush(list, item) == Append(list, item)

\* redisClient.lRange(key, 0, -1), then history.map(JSON.parse)
ParsedHistory(list) == [i \in 1..Len(list) |-> Parse(list[i])]

\* a test for the field alone: '' passes
HasQueryField(body) == "query" \in DOMAIN body

\* !query : undefined (no field) and '' are falsy
HasQuery(body) == "query" \in DOMAIN body /\ body.query # << >>

\* sessionId || crypto.randomBytes(16).toString('hex')
SuppliesSession(body) == "sessionId" \in DOMAIN body /\ body.sessionId # << >>

CurrentSessionId(body, token) ==
    IF SuppliesSession(body) THEN body.sessionId ELSE token

RECURSIVE JoinTexts(_)
\* searchResults.map(result => result.payload.text).join('\n\n')
JoinTexts(results) ==
    IF Len(results) = 0 THEN << >>
    ELSE IF Len(results) = 1 THEN results[1].payload.text
    ELSE results[1].payload.text \o <<"\n\n">> \o JoinTexts(Tail(results))

\* the joined texts with no fallback for an empty result
RetrievedTextNoFallback(results) == JoinTexts(results)

\* searchResults && searchResults.length > 0 ? joined texts : fallback
RetrievedText(results) ==
    IF Len(results) > 0 THEN JoinTexts(results) ELSE FALLBACK_TEXT

\* the template string of the RAG prompt
Prompt(retrievedText, query) ==
    <<"Based on the following news articles, answer the user's question.", "News Articles:">>
        \o retrievedText \o <<"User's Question:">> \o query

(***************************************************************************)
(* The Express response object of one /chat request.                       *)
(***************************************************************************)
NoHeaders == [h \in {} |-> << >>]

NewRes == [statusCode |-> 200, wire |-> 0, headers |-> NoHeaders,
           body |-> << >>, ended |-> FALSE]

\* the four res.setHeader calls of POST /chat
StreamHeaders ==
    [h \in {"Content-Type", "Transfer-Encoding", "Connection", "Cache-Control"} |->
        CASE h = "Content-Type" -> <<"text/plain">>
          [] h = "Transfer-Encoding" -> <<"chunked">>
          [] h = "Connection" -> <<"keep-alive">>
          [] h = "Cache-Control" -> <<"no-cache">>]

\* res.status(code): sets the status the headers will carry, if not yet sent
ResStatus(res, code) == [res EXCEPT !.statusCode = code]

\* a write that would put the chunk before what was written earlier
ResWriteFirst(res, chunk) ==
    [res EXCEPT !.wire = IF res.wire = 0 THEN res.statusCode ELSE res.wire,
                !.body = <<chunk>> \o res.body]

\* res.write(chunk): the first write sends the headers with the current status
ResWrite(res, chunk) ==
    [res EXCEPT !.wire = IF res.wire = 0 THEN res.statusCode ELSE res.wire,
                !.body = Append(res.body, chunk)]

\* res.end(): sends the headers if no write did, closes the response
ResEnd(res) ==
    [res EXCEPT !.wire = IF res.wire = 0 THEN res.statusCode ELSE res.wire,
                !.ended = TRUE]

\* res.status(400).json({error: ...})
ResJson(res, code, obj) ==
    ResEnd(ResWrite([ResStatus(res, code) EXCEPT
                        !.headers = [h \in {"Content-Type"} |-> <<"application/json">>]],
                    <<"{", "error", ":">> \o <<obj.error>> \o <<"}">>))

(***************************************************************************)
(* One /chat request: its position in the handler and its locals.          *)
(***************************************************************************)
NotCleared == [sid |-> << >>, removed |-> 0]

IdleReq == [pc |-> "idle", body |-> NoHeaders, sid |-> << >>, minted |-> FALSE,
            embeddings |-> << >>, results |-> << >>, prompt |-> << >>, full |-> << >>,
            calls |-> << >>, outcome |-> "none", failedAt |-> "none", res |-> NewRes]

Running(rq) == rq.pc \notin {"idle", "done"}

\* a /chat request with current session id s is between its start and its end
InFlight(s) == \E r \in Slots : Running(req[r]) /\ req[r].sid = s

\* a handler that swallows the error and goes on to save the turn
CaughtAndSaves(rq) == [rq EXCEPT !.pc = "push_user", !.failedAt = rq.pc]

\* the catch block of POST /chat: res.status(500).end(message)
Caught(rq) ==
    [rq EXCEPT !.pc = "done", !.outcome = "caught", !.failedAt = rq.pc,
               !.res = ResEnd(ResWrite(ResStatus(rq.res, 500), CATCH_MSG))]

\* the !queryEmbeddings test alone: an array is never falsy
EmbeddingsFalsy(queryEmbeddings) == FALSE

\* if (!queryEmbeddings || queryEmbeddings.length === 0) ... return
EmbeddingsMissing(queryEmbeddings) == Len(queryEmbeddings) = 0

Call(rq, name) == [rq EXCEPT !.calls = Append(rq.calls, name)]

(***************************************************************************)
(* Redis commands on one key.                                              *)
(***************************************************************************)
\* redisClient.expire(key, seconds): sets the expiry of an existing key only
ExpireTtl(list, old, seconds) == IF list = << >> THEN old ELSE seconds

\* lPop in place of del: only the head goes
LPop(list) == IF list = << >> THEN << >> ELSE Tail(list)

\* redisClient.del(key)
Del(list) == << >>

Min(a, b) == IF a < b THEN a ELSE b

\* the passage of dt seconds: keys whose expiry is reached are removed
Expired(s, dt) == ttl[s] # -1 /\ ttl[s] - dt <= 0

(***************************************************************************)
(* Request bodies of POST /chat.                                           *)
(***************************************************************************)
Field(name, present, val) == IF present THEN [n \in {name} |-> val] ELSE NoHeaders

Bodies ==
    { Field("query", hq, q) @@ Field("sessionId", hs, s) :
        <<hq, q, hs, s>> \in
            ({TRUE} \X (Queries \cup {<< >>}) \X {TRUE} \X SuppliedIds)
            \cup ({TRUE} \X Queries \X {FALSE} \X {<< >>})
            \cup ({FALSE} \X {<< >>} \X {TRUE} \X SuppliedIds) }

RECURSIVE SumLen(_)
SumLen(S) == IF S = {} THEN 0
             ELSE LET s == CHOOSE x \in S : TRUE IN Len(store[s]) + SumLen(S \ {s})

\* entries held by the store, plus those the running requests may still push
Load == SumLen(SessionIds) + 2 * Cardinality({r \in Slots : Running(req[r])})

(***************************************************************************)
(* POST /chat, one action per await.                                       *)
(***************************************************************************)
\* lines 93-105: validation, session id, headers; suspends in getJinaEmbeddings
Post(r, body, token) ==
    /\ req[r].pc \in {"idle", "done"}
    /\ IF ~HasQuery(body)
       THEN /\ req' = [req EXCEPT ![r] =
                         [IdleReq EXCEPT !.pc = "done", !.body = body, !.outcome = "400",
                                         !.res = ResJson(NewRes, 400, QUERY_REQUIRED)]]
            /\ UNCHANGED <<seqOnly, cleared, seqLog>>
       ELSE LET s == CurrentSessionId(body, token) IN
            /\ Load + 2 <= MaxTurns
            /\ req' = [req EXCEPT ![r] =
                         [IdleReq EXCEPT !.pc = "embed", !.body = body, !.sid = s,
                                         !.minted = ~SuppliesSession(body),
                                         !.res = [NewRes EXCEPT !.headers = StreamHeaders]]]
            /\ seqOnly' = [seqOnly EXCEPT ![s] = @ /\ ~InFlight(s)]
            /\ seqLog' = [seqLog EXCEPT ![s] = IF InFlight(s) THEN << >> ELSE @]
            /\ cleared' = IF cleared.sid = s THEN NotCleared ELSE cleared
    /\ UNCHANGED <<store, ttl, idle, faults>>
    /\ UNCHANGED ingestVars

\* the session leaves the "sequential successful requests only" regime
Taint(s) ==
    /\ seqOnly' = [seqOnly EXCEPT ![s] = FALSE]
    /\ seqLog' = [seqLog EXCEPT ![s] = << >>]

\* the key of session s is removed: with no request running on it the session is
\* as new, otherwise the running request was interfered with
Removed(s) ==
    /\ seqOnly' = [seqOnly EXCEPT ![s] = ~InFlight(s)]
    /\ seqLog' = [seqLog EXCEPT ![s] = << >>]

\* the responses of finished requests have been delivered: their slots are free
Forget(rq) == [r \in Slots |-> IF rq[r].pc = "done" THEN IdleReq ELSE rq[r]]

\* lines 109-114: getJinaEmbeddings([query]) returns (it catches its own errors)
Embed(r, queryEmbeddings) ==
    /\ req[r].pc = "embed"
    /\ req' = [req EXCEPT ![r] =
                 IF EmbeddingsMissing(queryEmbeddings)
                 THEN [Call(@, "embed") EXCEPT
                          !.pc = "done", !.outcome = "embed_empty", !.embeddings = queryEmbeddings,
                          !.res = ResEnd(ResWrite(ResStatus(@, 500), EMBED_FAIL_MSG))]
                 ELSE [Call(@, "embed") EXCEPT !.pc = "search", !.embeddings = queryEmbeddings]]
    /\ UNCHANGED <<store, ttl, idle, seqLog, seqOnly, cleared, faults>>
    /\ UNCHANGED ingestVars

\* lines 117-136: qdrantClient.search returns; the prompt is assembled
Search(r, results) ==
    /\ req[r].pc = "search"
    /\ req' = [req EXCEPT ![r] =
                 [Call(@, "search") EXCEPT
                     !.pc = "generate", !.results = results,
                     !.prompt = Prompt(RetrievedText(results), req[r].body.query)]]
    /\ UNCHANGED <<store, ttl, idle, seqLog, seqOnly, cleared, faults>>
    /\ UNCHANGED ingestVars

\* lines 117-121, 158-161: qdrantClient.search rejects
SearchFail(r) ==
    /\ req[r].pc = "search"
    /\ req' = [req EXCEPT ![r] = Caught(Call(@, "search"))]
    /\ UNCHANGED <<store, ttl, idle, seqLog, seqOnly, cleared, faults>>
    /\ UNCHANGED ingestVars

\* lines 139-143: model.generateContentStream returns the stream
Generate(r) ==
    /\ req[r].pc = "generate"
    /\ req' = [req EXCEPT ![r] = [Call(@, "generate") EXCEPT !.pc = "stream", !.full = << >>]]
    /\ UNCHANGED <<store, ttl, idle, seqLog, seqOnly, cleared, faults>>
    /\ UNCHANGED ingestVars

\* lines 139-141, 158-161: model.generateContentStream rejects
GenerateFail(r) ==
    /\ req[r].pc = "generate"
    /\ req' = [req EXCEPT ![r] = Caught(Call(@, "generate"))]
    /\ UNCHANGED <<store, ttl, idle, seqLog, seqOnly, cleared, faults>>
    /\ UNCHANGED ingestVars

\* lines 146-150: one iteration of the for await loop
StreamChunk(r) ==
    LET textChunk == Fragment(Len(req[r].res.body) + 1) IN
    /\ req[r].pc = "stream"
    /\ Len(req[r].res.body) < MaxFrags
    /\ req' = [req EXCEPT ![r] =
                 [@ EXCEPT !.res = ResWrite(@, textChunk),
                           !.full = @ \o textChunk]]
    /\ UNCHANGED <<store, ttl, idle, seqLog, seqOnly, cleared, faults>>
    /\ UNCHANGED ingestVars

\* line 146: the stream is exhausted; suspends in the first rPush
StreamEnd(r) ==
    /\ req[r].pc = "stream"
    /\ req' = [req EXCEPT ![r].pc = "push_user"]
    /\ UNCHANGED <<store, ttl, idle, seqLog, seqOnly, cleared, faults>>
    /\ UNCHANGED ingestVars

\* lines 146-147, 158-161: the stream (or chunk.text()) throws
StreamFail(r) ==
    /\ req[r].pc = "stream"
    /\ req' = [req EXCEPT ![r] = Caught(@)]
    /\ UNCHANGED <<store, ttl, idle, seqLog, seqOnly, cleared, faults>>
    /\ UNCHANGED ingestVars

\* what a Redis command can come to: done, or rejected without effect
Outcomes == {"ok", "error"}

\* the command comes to out, within the failures the run allows
Fault(out) ==
    IF out = "ok" THEN UNCHANGED faults
    ELSE faults < MaxFaults /\ faults' = faults + 1

\* one awaited rPush of POST /chat, at position pc, pushing turn
Push(r, pc, next, turn, out) ==
    LET s == req[r].sid IN
    /\ req[r].pc = pc
    /\ req' = [req EXCEPT ![r] =
                 IF out = "ok" THEN [Call(@, "rPush") EXCEPT !.pc = next]
                 ELSE Caught(Call(@, "rPush"))]
    /\ IF out = "ok"
       THEN /\ store' = [store EXCEPT ![s] = RPush(@, Stringify(turn))]
            /\ idle' = [idle EXCEPT ![s] = 0]
       ELSE UNCHANGED <<store, idle>>
    /\ IF out = "ok" THEN UNCHANGED <<seqLog, seqOnly>> ELSE Taint(s)
    /\ Fault(out)
    /\ UNCHANGED <<ttl, cleared>>
    /\ UNCHANGED ingestVars

\* line 153
RPushUser(r, out) == Push(r, "push_user", "push_bot", UserTurn(req[r].body.query), out)

\* line 154
RPushBot(r, out) == Push(r, "push_bot", "expire", BotTurn(req[r].full), out)

\* lines 155-157: expire, then res.end()
ExpireCall(r, out) ==
    LET s == req[r].sid IN
    /\ req[r].pc = "expire"
    /\ req' = [req EXCEPT ![r] =
                 IF out = "ok"
                 THEN [Call(@, "expire") EXCEPT !.pc = "done", !.outcome = "ok",
                                                !.res = ResEnd(@)]
                 ELSE Caught(Call(@, "expire"))]
    /\ ttl' = [ttl EXCEPT ![s] =
                 IF out = "ok" THEN ExpireTtl(store[s], @, TTL_SECONDS) ELSE @]
    /\ IF out = "ok"
       THEN /\ seqLog' = [seqLog EXCEPT ![s] =
                            IF seqOnly[s] THEN Append(@, <<req[r].body.query, req[r].full>>)
                            ELSE @]
            /\ UNCHANGED seqOnly
       ELSE Taint(s)
    /\ Fault(out)
    /\ UNCHANGED <<store, idle, cleared>>
    /\ UNCHANGED ingestVars

(***************************************************************************)
(* GET /chat/history and DELETE /chat/session/:sessionId.                  *)
(***************************************************************************)
\* lines 58-73, with a sessionId: the response of GET /chat/history
HistoryResponse(list, out) ==
    IF out = "ok"
    THEN [status |-> 200, history |-> ParsedHistory(list), error |-> << >>]
    ELSE [status |-> 500, history |-> << >>, error |-> <<"Failed to retrieve chat history.">>]

\* lines 59-63: no sessionId in the query string
HistoryNoIdResponse ==
    [status |-> 400, history |-> << >>, error |-> <<"Session ID is required.">>]

\* what GET /chat/history?sessionId=s returns when lRange succeeds
GetHistory(s) == HistoryResponse(store[s], "ok").history

\* lines 58-73: lRange reads the list and writes nothing
History(s, out) ==
    /\ HistoryResponse(store[s], out).status \in {200, 500}
    /\ UNCHANGED serverVars
    /\ UNCHANGED ingestVars

HistoryNoId ==
    /\ HistoryNoIdResponse.status = 400
    /\ UNCHANGED serverVars
    /\ UNCHANGED ingestVars

\* lines 83-89: the response of DELETE /chat/session/:sessionId
DeleteResponse(s, out) ==
    IF out = "ok"
    THEN [status |-> 200, text |-> <<"Session ">> \o s \o <<" deleted successfully.">>]
    ELSE [status |-> 500, text |-> <<"Failed to delete session.">>]

\* a removal that would empty every key
FlushAll(keys, s) == [k \in DOMAIN keys |-> << >>]

\* redisClient.del(`session:${sessionId}`): the one key is removed
DelKey(keys, s) == [keys EXCEPT ![s] = Del(@)]

\* lines 76-90: del succeeds
Delete(s) ==
    /\ DeleteResponse(s, "ok").status = 200
    /\ store' = DelKey(store, s)
    /\ ttl' = [ttl EXCEPT ![s] = IF Del(store[s]) = << >> THEN -1 ELSE @]
    /\ idle' = [idle EXCEPT ![s] = IF Del(store[s]) = << >> THEN IdleCap ELSE @]
    /\ cleared' = IF ~InFlight(s) THEN [sid |-> s, removed |-> Len(store[s])]
                  ELSE IF cleared.sid = s THEN NotCleared ELSE cleared
    /\ Removed(s)
    /\ req' = Forget(req)
    /\ UNCHANGED faults
    /\ UNCHANGED ingestVars

\* lines 83-89: del rejects, the catch block answers 500 and nothing is removed
DeleteFail(s) ==
    /\ DeleteResponse(s, "error").status = 500
    /\ UNCHANGED serverVars
    /\ UNCHANGED ingestVars

(***************************************************************************)
(* Time: Redis removes a key when its expiry is reached.                   *)
(***************************************************************************)
Tick ==
    /\ store' = [s \in SessionIds |-> IF Expired(s, Quantum) THEN << >> ELSE store[s]]
    /\ ttl' = [s \in SessionIds |->
                 IF ttl[s] = -1 \/ Expired(s, Quantum) THEN -1 ELSE ttl[s] - Quantum]
    /\ idle' = [s \in SessionIds |->
                  IF store[s] = << >> \/ Expired(s, Quantum) THEN IdleCap
                  ELSE Min(idle[s] + Quantum, IdleCap)]
    /\ seqOnly' = [s \in SessionIds |->
                     IF Expired(s, Quantum) THEN ~InFlight(s) ELSE seqOnly[s]]
    /\ seqLog' = [s \in SessionIds |-> IF Expired(s, Quantum) THEN << >> ELSE seqLog[s]]
    /\ req' = Forget(req)
    /\ UNCHANGED <<cleared, faults>>
    /\ UNCHANGED ingestVars

ServerInit ==
    /\ store = [s \in SessionIds |-> << >>]
    /\ ttl = [s \in SessionIds |-> -1]
    /\ idle = [s \in SessionIds |-> IdleCap]
    /\ req = [r \in Slots |-> IdleReq]
    /\ seqLog = [s \in SessionIds |-> << >>]
    /\ seqOnly = [s \in SessionIds |-> TRUE]
    /\ cleared = NotCleared
    /\ faults = 0

\* one step of the server with the /chat requests running in slots
ServerSteps(slots) ==
    \/ \E r \in slots, body \in Bodies, token \in Tokens : Post(r, body, token)
    \/ \E r \in slots, e \in {<< >>, <<"v">>} : Embed(r, e)
    \/ \E r \in slots, results \in SearchResults : Search(r, results)
    \/ \E r \in slots : SearchFail(r)
    \/ \E r \in slots : Generate(r)
    \/ \E r \in slots : GenerateFail(r)
    \/ \E r \in slots : StreamChunk(r)
    \/ \E r \in slots : StreamEnd(r)
    \/ \E r \in slots : StreamFail(r)
    \/ \E r \in slots, out \in Outcomes : RPushUser(r, out)
    \/ \E r \in slots, out \in Outcomes : RPushBot(r, out)
    \/ \E r \in slots, out \in Outcomes : ExpireCall(r, out)
    \/ \E s \in SessionIds, out \in {"ok", "error"} : History(s, out)
    \/ HistoryNoId
    \/ \E s \in SessionIds : Delete(s)
    \/ \E s \in SessionIds : DeleteFail(s)

\* /chat requests come one after the other
ServerNext == ServerSteps(SeqSlots)

\* the bodies of the requests of one conversation
SameSession == {body \in Bodies : HasQuery(body) /\ SuppliesSession(body)}

\* two /chat requests of one conversation can be in flight at once
ConcurrentNext ==
    \/ \E r \in Slots, body \in SameSession, token \in Tokens : Post(r, body, token)
    \/ \E r \in Slots : Embed(r, <<"v">>)
    \/ \E r \in Slots, results \in SearchResults : Search(r, results)
    \/ \E r \in Slots : Generate(r)
    \/ \E r \in Slots : StreamChunk(r)
    \/ \E r \in Slots : StreamEnd(r)
    \/ \E r \in Slots, out \in Outcomes : RPushUser(r, out)
    \/ \E r \in Slots, out \in Outcomes : RPushBot(r, out)
    \/ \E r \in Slots, out \in Outcomes : ExpireCall(r, out)
    \/ \E s \in SuppliedIds, out \in Outcomes : History(s, out)

(***************************************************************************)
(* ingest.js: strings, chunkText and fetchArticleContent.                  *)
(***************************************************************************)
\* articles the run processes at most
MAX_ARTICLES == 50
\* chunkText(text, maxChars = 500)
DEFAULT_MAX_CHARS == 500
\* fullText.length > 200 ? fullText : null
MIN_TEXT_LENGTH == 200
\* Math.floor(Math.random() * 1000000)
ID_RANGE == 1000000
sitemapUrls == <<"news.xml", "sport.xml", "business.xml">>

\* urls of the longest sitemap the model fetches
MaxUrls == 26
\* characters of the longest text chunkText is called with
MaxTextLen == 5
\* the largest maxChars chunkText is called with
MaxChars == 3

IsPunct(c) == c \in {".", "?", "!"}
IsSpace(c) == c \in {" ", "\n", "\t"}

\* the index of the last character of the whitespace run that starts at i
SpacesEnd(text, i) ==
    CHOOSE j \in i..Len(text) :
        /\ \A k \in i..j : IsSpace(text[k])
        /\ j = Len(text) \/ ~IsSpace(text[j + 1])

\* where /(?<=[.?!])\s+/ can match: whitespace right after a sentence mark
SeparatorStarts(text) == {i \in 2..Len(text) : IsSpace(text[i]) /\ IsPunct(text[i - 1])}

RECURSIVE SplitFrom(_, _, _)
\* text.split(/(?<=[.?!])\s+/) for the sentences that begin at st or later
SplitFrom(text, st, acc) ==
    LET later == {i \in SeparatorStarts(text) : i >= st} IN
    IF later = {} THEN Append(acc, SubSeq(text, st, Len(text)))
    ELSE LET i == CHOOSE m \in later : \A n \in later : m <= n
             j == SpacesEnd(text, i)
         IN SplitFrom(text, j + 1, Append(acc, SubSeq(text, st, i - 1)))

SplitSentences(text) == SplitFrom(text, 1, << >>)

\* chunks.push(currentChunk) under if (currentChunk.length > 0)
PushChunk(chunks, currentChunk) ==
    IF Len(currentChunk) > 0 THEN Append(chunks, currentChunk) ELSE chunks

\* if (currentChunk.length + sentence.length <= maxChars)
Fits(currentChunk, sentence, maxChars) == Len(currentChunk) + Len(sentence) <= maxChars

RECURSIVE ChunkLoop(_, _, _, _, _)
\* the for loop of chunkText from sentence k on, and the final flush
ChunkLoop(sentences, k, currentChunk, chunks, maxChars) ==
    IF k > Len(sentences) THEN PushChunk(chunks, currentChunk)
    ELSE LET sentence == sentences[k] IN
         IF Fits(currentChunk, sentence, maxChars)
         THEN ChunkLoop(sentences, k + 1,
                        currentChunk \o (IF Len(currentChunk) > 0 THEN <<" ">> ELSE << >>)
                                     \o sentence,
                        chunks, maxChars)
         ELSE ChunkLoop(sentences, k + 1, sentence, PushChunk(chunks, currentChunk), maxChars)

chunkText(text, maxChars) == ChunkLoop(SplitSentences(text), 1, << >>, << >>, maxChars)

RECURSIVE TrimStart(_)
TrimStart(text) ==
    IF text # << >> /\ IsSpace(Head(text)) THEN TrimStart(Tail(text)) ELSE text

RECURSIVE TrimEnd(_)
TrimEnd(text) ==
    IF text # << >> /\ IsSpace(text[Len(text)])
    THEN TrimEnd(SubSeq(text, 1, Len(text) - 1)) ELSE text

\* String.prototype.trim
Trim(text) == TrimEnd(TrimStart(text))

\* `${content.title}\n\n${content.bodyText}`.trim()
FullText(page) == Trim(page.title \o <<"\n", "\n">> \o page.bodyText)

\* fullText.length > 200
LongEnough(fullText) == Len(fullText) > MIN_TEXT_LENGTH

Rep(c, n) == [i \in 1..n |-> c]

\* the pages the scraper can come back with
Pages ==
    [name \in {"short", "one", "two"} |->
        CASE name = "short" -> [title |-> <<"T">>, bodyText |-> <<"a", "a", ".">>]
          [] name = "one" -> [title |-> <<"T">>, bodyText |-> Rep("a", 200) \o <<".">>]
          [] name = "two" ->
               [title |-> <<"T">>,
                bodyText |-> Rep("a", 246) \o <<".", " ">> \o Rep("b", 248) \o <<".", " ">>
                                 \o Rep("c", 148) \o <<".", " ">>]]

PageNames == DOMAIN Pages

\* fetchArticleContent: the names of the pages whose text it returns (not null)
Readable == {name \in PageNames : LongEnough(FullText(Pages[name]))}

\* chunkText(content) for the content of each readable page
PageChunks == [name \in Readable |-> chunkText(FullText(Pages[name]), DEFAULT_MAX_CHARS)]

(***************************************************************************)
(* ingest.js: main.                                                        *)
(***************************************************************************)
\* the ids Math.floor(Math.random() * 1000000) is drawn from here
IdSpace == {0, ID_RANGE - 1}

NoPoint == [url |-> "none", page |-> "none", chunk |-> 0, vector |-> 0]

Absent == [exists |-> FALSE, points |-> [id \in IdSpace |-> NoPoint]]
\* a creation that would keep what the name held before
Leftover ==
    [exists |-> TRUE,
     points |-> [id \in IdSpace |-> [url |-> "old", page |-> "one", chunk |-> 1, vector |-> 1]]]

\* the collection as createCollection makes it
Empty == [exists |-> TRUE, points |-> [id \in IdSpace |-> NoPoint]]

\* a collection that an earlier run left behind
Stale == [exists |-> TRUE,
          points |-> [id \in IdSpace |->
                         IF id = 0
                         THEN [url |-> "old", page |-> "one", chunk |-> 1, vector |-> 1]
                         ELSE NoPoint]]

\* a sitemap with n article urls
UrlList(n) == [i \in 1..n |-> IF i % 2 = 1 THEN "u1" ELSE "u2"]

LongLists == {UrlList(0), UrlList(2), UrlList(MaxUrls)}

ShortLists == {UrlList(0), UrlList(1), UrlList(2)}

\* chunkText(content)
Chunks == IF content \in Readable THEN PageChunks[content] ELSE << >>

\* if (articlesProcessed > MAX_ARTICLES) break
CapExceeded(n) == n > MAX_ARTICLES

\* if (articlesProcessed >= MAX_ARTICLES) break
CapReached(n) == n >= MAX_ARTICLES

\* if (embeddings.length > 0)
SomeEmbeddings(e, chunks) == Len(e) > 0

\* if (embeddings.length === chunks.length)
CountsMatch(e, chunks) == Len(e) = Len(chunks)

\* the two for loops of main, from the end of the body of article i of sitemap s
\* to the next await
Continue(s, u, i, n) ==
    IF i < Len(u) /\ ~CapReached(n)
    THEN [ipc |-> "fetchArticleContent", si |-> s, ui |-> i + 1]
    ELSE IF s < Len(sitemapUrls) /\ ~CapReached(n)
         THEN [ipc |-> "fetchXmlUrls", si |-> s + 1, ui |-> i]
         ELSE [ipc |-> "closePuppeteer", si |-> s, ui |-> i]

Goto(next) == ipc' = next.ipc /\ si' = next.si /\ ui' = next.ui

\* main().catch: the error is logged and closePuppeteer is called
MainFailed ==
    /\ ipc' = "failed"
    /\ browser' = IF browser = "open" THEN "closed" ELSE browser

\* try { await client.deleteCollection(COLLECTION_NAME) } catch { }
DeleteCollection(out) ==
    /\ ipc = "deleteCollection"
    /\ collection' = IF out = "ok" THEN Absent ELSE collection
    /\ ipc' = "createCollection"
    /\ UNCHANGED <<browser, si, urls, ui, content, embeddings, articlesProcessed,
                   upsertedDocs, resets, lastDoc>>
    /\ UNCHANGED <<serverVars, chunkVars>>

\* await client.createCollection(...): Qdrant refuses a name that exists
CreateCollection(out) ==
    /\ ipc = "createCollection"
    /\ IF out = "ok"
       THEN /\ ~collection.exists
            /\ collection' = Empty
            /\ resets' = resets + 1
            /\ ipc' = "initializePuppeteer"
            /\ UNCHANGED browser
       ELSE MainFailed /\ UNCHANGED <<collection, resets>>
    /\ UNCHANGED <<si, urls, ui, content, embeddings, articlesProcessed, upsertedDocs,
                   lastDoc>>
    /\ UNCHANGED <<serverVars, chunkVars>>

\* await initializePuppeteer(), then the head of the sitemap loop
InitializePuppeteer(out) ==
    /\ ipc = "initializePuppeteer"
    /\ IF out = "ok"
       THEN /\ browser' = "open"
            /\ Goto(Continue(0, << >>, 0, articlesProcessed))
       ELSE MainFailed /\ UNCHANGED <<si, ui>>
    /\ UNCHANGED <<collection, urls, content, embeddings, articlesProcessed, upsertedDocs,
                   resets, lastDoc>>
    /\ UNCHANGED <<serverVars, chunkVars>>

\* const articleUrls = await fetchXmlUrls(sitemapUrl): [] when the fetch fails
FetchXmlUrls(list) ==
    /\ ipc = "fetchXmlUrls"
    /\ urls' = list
    /\ Goto(Continue(si, list, 0, articlesProcessed))
    /\ UNCHANGED <<collection, browser, content, embeddings, articlesProcessed,
                   upsertedDocs, resets, lastDoc>>
    /\ UNCHANGED <<serverVars, chunkVars>>

\* const content = await fetchArticleContent(url): null for a short page or an error
FetchArticleContent(page) ==
    /\ ipc = "fetchArticleContent"
    /\ content' = IF page \in Readable THEN page ELSE "null"
    /\ embeddings' = << >>
    /\ IF content' # "null"
       THEN ipc' = "getJinaEmbeddings" /\ UNCHANGED <<si, ui, lastDoc>>
       ELSE Goto(Continue(si, urls, ui, articlesProcessed)) /\ lastDoc' = "no text"
    /\ UNCHANGED <<collection, browser, urls, articlesProcessed, upsertedDocs, resets>>
    /\ UNCHANGED <<serverVars, chunkVars>>

\* const embeddings = await getJinaEmbeddings(chunks): [] when the call fails
GetJinaEmbeddings(m) ==
    /\ ipc = "getJinaEmbeddings"
    /\ embeddings' = [i \in 1..m |-> i]
    /\ IF CountsMatch(embeddings', Chunks)
       THEN ipc' = "upsertPoints" /\ UNCHANGED <<si, ui, lastDoc>>
       ELSE Goto(Continue(si, urls, ui, articlesProcessed)) /\ lastDoc' = "mismatch"
    /\ UNCHANGED <<collection, browser, urls, content, articlesProcessed, upsertedDocs,
                   resets>>
    /\ UNCHANGED <<serverVars, chunkVars>>

\* chunks.map((chunk, i) => ({ id, vector: embeddings[i], payload: { url, text: chunk } }))
PointsToUpload(ids) ==
    [i \in 1..Len(Chunks) |->
        [id |-> ids[i],
         point |-> [url |-> urls[ui], page |-> content, chunk |-> i,
                    vector |-> IF i <= Len(embeddings) THEN embeddings[i] ELSE 0]]]

RECURSIVE Upserted(_, _, _)
\* client.upsert: each point replaces whatever is stored under its id
Upserted(points, batch, k) ==
    IF k > Len(batch) THEN points
    ELSE Upserted([points EXCEPT ![batch[k].id] = batch[k].point], batch, k + 1)

\* await upsertPoints(pointsToUpload); articlesProcessed++
UpsertPoints(ids, out) ==
    /\ ipc = "upsertPoints"
    /\ Len(ids) = Len(Chunks)
    /\ LET pointsToUpload == PointsToUpload(ids) IN
       IF Len(pointsToUpload) = 0 \/ out = "ok"
       THEN /\ collection' = [collection EXCEPT
                                 !.points = Upserted(@, pointsToUpload, 1)]
            /\ articlesProcessed' = articlesProcessed + 1
            /\ upsertedDocs' = IF Len(pointsToUpload) = 0 THEN upsertedDocs
                                ELSE upsertedDocs + 1
            /\ lastDoc' = "upserted"
            /\ Goto(Continue(si, urls, ui, articlesProcessed'))
            /\ UNCHANGED browser
       ELSE /\ MainFailed
            /\ lastDoc' = "upsert failed"
            /\ UNCHANGED <<collection, si, ui, articlesProcessed, upsertedDocs>>
    /\ UNCHANGED <<urls, content, embeddings, resets>>
    /\ UNCHANGED <<serverVars, chunkVars>>

\* await closePuppeteer() after the loops
ClosePuppeteer ==
    /\ ipc = "closePuppeteer"
    /\ browser' = "closed"
    /\ ipc' = "done"
    /\ UNCHANGED <<collection, si, urls, ui, content, embeddings, articlesProcessed,
                   upsertedDocs, resets, lastDoc>>
    /\ UNCHANGED <<serverVars, chunkVars>>

IngestInit ==
    /\ ipc = "deleteCollection"
    /\ collection \in {Absent, Stale}
    /\ browser = "none"
    /\ si = 0
    /\ urls = << >>
    /\ ui = 0
    /\ content = "null"
    /\ embeddings = << >>
    /\ articlesProcessed = 0
    /\ upsertedDocs = 0
    /\ resets = 0
    /\ lastDoc = "none"

\* the numbers of chunks the readable pages have
ChunkCounts == {Len(PageChunks[name]) : name \in Readable}

\* the numbers of vectors getJinaEmbeddings can return: none, one per chunk, or another
EmbeddingCounts == UNION {{0, n, n + 1} : n \in ChunkCounts}

\* one id per chunk
IdChoices(ids) == UNION {[1..n -> ids] : n \in ChunkCounts}

\* one run of main over sitemaps drawn from lists, with point ids drawn from ids
IngestNext(lists, ids) ==
    \/ \E out \in Outcomes : DeleteCollection(out)
    \/ \E out \in Outcomes : CreateCollection(out)
    \/ \E out \in Outcomes : InitializePuppeteer(out)
    \/ \E list \in lists : FetchXmlUrls(list)
    \/ \E page \in PageNames \cup {"error"} : FetchArticleContent(page)
    \/ \E m \in EmbeddingCounts : GetJinaEmbeddings(m)
    \/ \E chosen \in IdChoices(ids), out \in Outcomes : UpsertPoints(chosen, out)
    \/ ClosePuppeteer

\* the characters the texts given to chunkText are made of
Alphabet == {"a", ".", " ", "\n"}

\* the texts of n characters
TextsOfLen(n) == [1..n -> Alphabet]

Texts == UNION {TextsOfLen(n) : n \in 0..MaxTextLen}

\* no call of chunkText is under way
ChunkIdle ==
    /\ argText = << >>
    /\ argMaxChars = DEFAULT_MAX_CHARS
    /\ result = << >>
    /\ called = FALSE

\* chunkText is about to be called with some text and some maxChars
ChunkInit ==
    /\ argText \in Texts
    /\ argMaxChars \in 1..MaxChars
    /\ result = << >>
    /\ called = FALSE

\* chunkText(text, maxChars) returns
ChunkCall ==
    /\ ~called
    /\ result' = chunkText(argText, argMaxChars)
    /\ called' = TRUE
    /\ UNCHANGED <<argText, argMaxChars, serverVars, runVars>>

Init == ServerInit /\ IngestInit /\ ChunkIdle

\* the server is started on a collection that has been ingested
ServerUp == ServerInit /\ IngestInit /\ collection = Stale /\ ChunkIdle

\* the server within one TTL period: no key expires
Spec == ServerUp /\ [][ServerNext]_vars

\* the server over time: Redis expires the keys whose TTL has run out
SpecTTL == ServerUp /\ [][ServerNext \/ Tick]_vars

\* the server with concurrent /chat requests, within one TTL period
SpecConcurrent == ServerUp /\ [][ConcurrentNext]_vars

\* a run of ingest.js over sitemaps long enough to reach MAX_ARTICLES
SpecIngest == Init /\ [][IngestNext(LongLists, {0})]_vars

\* a run of ingest.js over short sitemaps, with point ids that can differ or collide
SpecPoints == Init /\ [][IngestNext(ShortLists, IdSpace)]_vars

\* chunkText is called once, with any short text and any small maxChars
ChunkStart == ServerInit /\ IngestInit /\ collection = Stale /\ ChunkInit

SpecChunk == ChunkStart /\ [][ChunkCall]_vars

(***************************************************************************)
(* Claims about the server.                                                *)
(***************************************************************************)
Range(f) == {f[i] : i \in DOMAIN f}

RECURSIVE Turns(_)
\* the entries N exchanges leave, in call order
Turns(log) ==
    IF log = << >> THEN << >>
    ELSE <<UserTurn(log[1][1]), BotTurn(log[1][2])>> \o Turns(Tail(log))

AllCalls == <<"embed", "search", "generate", "rPush", "rPush", "expire">>

\* C1: after N sequential successful /chat requests on one session id (no clear,
\* no expiry, no failed request in between) GET /chat/history returns exactly 2N
\* entries in call order: {user: query_i} then {bot: answer_i} for i = 1..N.
C1_SequentialHistory ==
    \A s \in SessionIds :
        (seqOnly[s] /\ ~InFlight(s)) =>
            /\ Len(GetHistory(s)) = 2 * Len(seqLog[s])
            /\ GetHistory(s) = Turns(seqLog[s])

C1_Witness ==
    \E s \in SessionIds :
        /\ seqOnly[s] /\ ~InFlight(s)
        /\ Len(seqLog[s]) = 2
        /\ seqLog[s][1][1] # seqLog[s][2][1]
        /\ seqLog[s][1][2] # seqLog[s][2][2]

\* C2: when the generation stream fails after fragments were forwarded, the
\* fragments already written stay in the response, the request ends there having
\* made no session-store call, and the step leaves every session list and
\* expiry as it was.
C2_StreamFailureWritesNothing ==
    [][\A r \in Slots :
          (req[r].pc = "stream" /\ req'[r].failedAt = "stream") =>
              /\ req'[r].pc = "done"
              /\ req'[r].calls = <<"embed", "search", "generate">>
              /\ SubSeq(req'[r].res.body, 1, Len(req[r].res.body)) = req[r].res.body
              /\ store' = store /\ ttl' = ttl]_serverVars

C2_Witness ==
    \E r \in Slots :
        /\ req[r].failedAt = "stream" /\ req[r].pc = "done"
        /\ Len(req[r].res.body) = 3
        /\ req[r].res.body[1] = Fragment(1) /\ req[r].res.body[2] = Fragment(2)
        /\ store[req[r].sid] # << >>

EmbedReturnedEmpty(rq) == "embed" \in Range(rq.calls) /\ rq.embeddings = << >>

\* C3: when the query embedding comes back empty the request ends at once with
\* a failure response (500) and makes no search, generation or session-store call.
C3_EmbeddingFailureIsTerminal ==
    \A r \in Slots :
        EmbedReturnedEmpty(req[r]) =>
            /\ req[r].pc = "done"
            /\ req[r].calls = <<"embed">>
            /\ req[r].res.wire = 500 /\ req[r].res.ended
            /\ req[r].res.body = <<EMBED_FAIL_MSG>>

C3_Witness ==
    \E r \in Slots : EmbedReturnedEmpty(req[r]) /\ req[r].pc = "done" /\ store[req[r].sid] # << >>

SearchReturnedEmpty(rq) ==
    /\ Len(rq.calls) >= 2 /\ rq.calls[2] = "search"
    /\ rq.failedAt # "search"
    /\ rq.results = << >>

\* C4: an empty search result is no failure: the prompt is assembled from the
\* fixed fallback text, generation is invoked, and a request that then completes
\* answers 200 with the fragments alone and has made the two rPush calls and the
\* expire call, exactly as any other request.
C4_EmptySearchFallsBack ==
    \A r \in Slots :
        SearchReturnedEmpty(req[r]) =>
            /\ req[r].prompt = Prompt(FALLBACK_TEXT, req[r].body.query)
            /\ req[r].pc \in {"generate", "stream", "push_user", "push_bot", "expire", "done"}
            /\ req[r].outcome \in {"none", "ok", "caught"}
            /\ req[r].outcome = "ok" =>
                  /\ req[r].calls = AllCalls
                  /\ req[r].res.wire = 200 /\ req[r].res.ended
                  /\ req[r].res.body = [i \in 1..Len(req[r].res.body) |-> Fragment(i)]

C4_Witness ==
    \E r \in Slots :
        SearchReturnedEmpty(req[r]) /\ req[r].outcome = "ok" /\ Len(req[r].res.body) = 2

TokenInResponse(rq) ==
    \/ \E h \in DOMAIN rq.res.headers : rq.res.headers[h] = rq.sid
    \/ \E i \in DOMAIN rq.res.body : rq.res.body[i] = rq.sid

\* C5: a request that carries a sessionId writes its turns under that id; one
\* without mints a token, writes its turns under it and returns the token to the
\* caller in the response.
C5_SessionIdPolicy ==
    \A r \in Slots :
        (req[r].pc = "done" /\ req[r].outcome = "ok") =>
            /\ SuppliesSession(req[r].body) => req[r].sid = req[r].body.sessionId
            /\ req[r].calls = AllCalls
            /\ req[r].minted => (req[r].sid \in Tokens /\ TokenInResponse(req[r]))

\* C6: a session that received no write for longer than the TTL (3600 s) is
\* absent from every later history read.
C6_IdleSessionAbsent ==
    \A s \in SessionIds :
        (idle[s] > TTL_SECONDS /\ ~InFlight(s)) => GetHistory(s) = << >>

\* C7: after a successful clear of s, with no /chat on s running or following,
\* GET /chat/history for s returns an empty history, whatever s held before.
C7_ClearedIsEmpty ==
    \A s \in SessionIds : cleared.sid = s => GetHistory(s) = << >>

C7_Witness ==
    cleared.sid \in SessionIds /\ cleared.removed = 4

QueryMissingOrEmpty(body) == "query" \notin DOMAIN body \/ body.query = << >>

\* C8: a /chat request whose query is missing or empty is answered 400 and makes
\* no embedding, search, generation or session-store call.
C8_MissingQueryRejected ==
    \A r \in Slots :
        (req[r].pc # "idle" /\ QueryMissingOrEmpty(req[r].body)) =>
            /\ req[r].pc = "done"
            /\ req[r].calls = << >>
            /\ req[r].res.wire = 400 /\ req[r].res.ended
            /\ req[r].sid = << >>

C8_Witness ==
    \E r \in Slots :
        /\ req[r].pc = "done" /\ "query" \in DOMAIN req[r].body
        /\ req[r].body.query = << >> /\ req[r].res.wire = 400

(***************************************************************************)
(* Claims about ingestion.                                                 *)
(***************************************************************************)
\* C9: in every run, whatever the sitemaps hold and however the documents fare,
\* neither the counter of processed articles nor the number of documents whose
\* points were upserted ever exceeds 50.
C9_ArticleCap == articlesProcessed <= MAX_ARTICLES /\ upsertedDocs <= MAX_ARTICLES

\* the run has ended on the cap with articles of the current sitemap left over
C9_Witness ==
    /\ ipc = "done"
    /\ articlesProcessed = MAX_ARTICLES
    /\ upsertedDocs = MAX_ARTICLES
    /\ ui < Len(urls)

\* the awaits inside the body of the article loop
DocAwaits == {"fetchArticleContent", "getJinaEmbeddings", "upsertPoints"}

\* this step is the last one the run spends on the current document
DocEnds == ipc \in DocAwaits /\ ipc' \notin {"getJinaEmbeddings", "upsertPoints"}

\* the text of the document was obtained and it got one embedding per chunk
TextAndCounts == content' # "null" /\ Len(embeddings') = Len(Chunks')

\* the upsert call for the document was made and returned
UpsertReturned == ipc = "upsertPoints" /\ ipc' # "failed"

\* the points of the document went into the collection: the call is counted and
\* the point of the last chunk is stored
DocUpserted ==
    /\ upsertedDocs' = upsertedDocs + 1
    /\ \E id \in IdSpace :
          collection'.points[id] = [url |-> urls[ui], page |-> content,
                                    chunk |-> Len(Chunks), vector |-> embeddings[Len(Chunks)]]

\* the document left the collection and the counters as they were
DocSkipped ==
    /\ collection' = collection
    /\ upsertedDocs' = upsertedDocs
    /\ articlesProcessed' = articlesProcessed

Incremented == articlesProcessed' = articlesProcessed + 1

\* C10 as stated: a document's points are upserted and the counter is incremented
\* exactly when its text was obtained and the embeddings are as many as the
\* chunks; in every other case nothing is upserted and the counter stays.
C10_Original ==
    [][DocEnds => IF TextAndCounts THEN DocUpserted /\ Incremented ELSE DocSkipped]_vars

\* C10, amended: a document's points are upserted and the counter is incremented
\* exactly when its text was obtained, the embeddings are as many as the chunks
\* and the upsert call returns; in every other case nothing is upserted and the
\* counter stays.  No step outside the body of the article loop moves the counter.
C10_UpsertAndCount ==
    [][/\ DocEnds => IF TextAndCounts /\ UpsertReturned THEN DocUpserted /\ Incremented
                     ELSE DocSkipped
       /\ UpsertReturned => TextAndCounts
       /\ ~DocEnds => articlesProcessed' = articlesProcessed /\ upsertedDocs' = upsertedDocs]_vars

\* after a counted document, a document with text and matching embeddings whose
\* upsert call failed
C10_Witness ==
    /\ lastDoc = "upsert failed"
    /\ articlesProcessed >= 1
    /\ content # "null"
    /\ Len(embeddings) = Len(Chunks)

\* C11: the failure of a document's fetch, embedding or upsert call is isolated:
\* the document is skipped and the run goes on, so no step taken inside the body
\* of the article loop ends the run as failed.
C11_DocumentFailuresIsolated ==
    [][(ipc \in DocAwaits) => (ipc' # "failed")]_vars

\* the points some document of this run has left in the collection
RunPoints == {id \in IdSpace : collection.points[id].url \in {"u1", "u2"}}

\* the points an earlier run has left in the collection
OldPoints == {id \in IdSpace : collection.points[id].url = "old"}

\* C12: the collection is reset exactly once in a run and before any upsert:
\* createCollection returns at most once, no document is fetched and no point
\* written before it has, and once it has nothing of an earlier run is left; a
\* run that fails in the creation ends with no document fetched and no point
\* upserted.
C12_ResetOnceBeforeUpsert ==
    /\ resets <= 1
    /\ resets = 0 =>
          /\ collection \in {Absent, Stale}
          /\ ipc \in {"deleteCollection", "createCollection", "failed"}
          /\ si = 0 /\ ui = 0 /\ content = "null" /\ lastDoc = "none"
          /\ upsertedDocs = 0 /\ articlesProcessed = 0 /\ RunPoints = {}
    /\ resets = 1 => collection.exists /\ OldPoints = {}
    /\ (upsertedDocs > 0 \/ RunPoints # {}) => resets = 1

\* documents were upserted after the one reset of the run
C12_Witness ==
    /\ resets = 1
    /\ upsertedDocs >= 2
    /\ RunPoints # {}
    /\ ipc = "done"

(***************************************************************************)
(* Claims about chunkText.                                                 *)
(***************************************************************************)
\* the sentences text.split(/(?<=[.?!])\s+/) gives for the text of the call
Sentences == SplitSentences(argText)

\* the chunk is one sentence of the text, longer than maxChars, kept whole
OverLengthSentence(chunk) ==
    \E k \in DOMAIN Sentences : Sentences[k] = chunk /\ Len(chunk) > argMaxChars

\* C13: for every text and every maxChars, each chunk chunkText returns is at
\* most maxChars long, unless it is exactly one sentence that is itself longer
\* than maxChars.
C13_ChunkLengthBound ==
    called =>
        \A i \in DOMAIN result :
            Len(result[i]) <= argMaxChars \/ OverLengthSentence(result[i])

RECURSIVE JoinSpaces(_)
\* pieces.join(' ')
JoinSpaces(pieces) ==
    IF pieces = << >> THEN << >>
    ELSE IF Len(pieces) = 1 THEN pieces[1]
    ELSE pieces[1] \o <<" ">> \o JoinSpaces(Tail(pieces))

RECURSIVE Concat(_)
\* the strings of a sequence, one after the other
Concat(strings) ==
    IF strings = << >> THEN << >> ELSE Head(strings) \o Concat(Tail(strings))

\* the request is past the headers and has not been through the catch block
Streaming(rq) == rq.pc \in {"stream", "push_user", "push_bot", "expire"} \/ rq.outcome = "ok"

\* C15: the fragments are written to the response in arrival order, each as it
\* is read; no session-store call is made while the stream is being read; and
\* the bot text that is stored is the concatenation, in order, of exactly the
\* fragments written.
C15_StreamThenPersist ==
    \A r \in Slots :
        /\ Streaming(req[r]) =>
              /\ req[r].res.body = [i \in 1..Len(req[r].res.body) |-> Fragment(i)]
              /\ req[r].full = Concat(req[r].res.body)
        /\ req[r].pc = "stream" => "rPush" \notin Range(req[r].calls)
        /\ (req[r].pc = "expire" /\ store[req[r].sid] # << >>) =>
              store[req[r].sid][Len(store[req[r].sid])]
                  = Stringify(BotTurn(Concat(req[r].res.body)))

\* both turns of a request that streamed two fragments are stored
C15_Witness ==
    \E r \in Slots :
        /\ req[r].pc = "expire"
        /\ Len(req[r].res.body) = 2
        /\ Len(store[req[r].sid]) >= 2
        /\ store[req[r].sid][Len(store[req[r].sid])] = Stringify(BotTurn(<<"a", "b">>))

\* C16: every append to a session is followed at once by a refresh of its
\* expiry to 3600 s, so that, whenever no /chat request is in the middle of its
\* session-store calls on a session, whatever is stored in it has an expiry.
C16_NoEntryWithoutExpiry ==
    \A s \in SessionIds :
        (store[s] # << >> /\ ~InFlight(s)) => ttl[s] \in 1..TTL_SECONDS

(***************************************************************************)
(* Further claims about ingestion.                                         *)
(***************************************************************************)
\* C17: a point written to the collection during a run is immutable: no later
\* step of the run replaces or removes it, it keeps its payload and vector.
C17_PointsImmutable ==
    [][\A id \in RunPoints : collection'.points[id] = collection.points[id]]_vars

\* the stored item is a user turn, a bot turn
IsUser(item) == \E q \in Queries : item = Stringify(UserTurn(q))
IsBot(item) == ~IsUser(item)

\* C18: with /chat requests in flight at once on one session, whatever the
\* interleaving of their appends, every {user: q} entry of the list is
\* immediately followed by a {bot: answer} entry (that of the same request).
\* Stated for the lists no request is still writing to, with no failed
\* session-store call.
C18_PairedPositionally ==
    \A s \in SessionIds :
        (faults = 0 /\ ~InFlight(s)) =>
            \A i \in DOMAIN store[s] :
                IsUser(store[s][i]) => (i < Len(store[s]) /\ IsBot(store[s][i + 1]))

\* no /chat request is between its first and its last session-store call
NoRequestWriting == \A r \in Slots : req[r].pc \notin {"push_bot", "expire"}

\* C19: a /chat request persists its two turns all or nothing: whenever no
\* request is between its first and its last session-store call, every stored
\* list has even length and begins with a user entry, also after a failed
\* session-store call or a clear between the two appends.
C19_TurnsAllOrNothing ==
    NoRequestWriting =>
        \A s \in SessionIds :
            /\ Len(store[s]) % 2 = 0
            /\ store[s] # << >> => IsUser(store[s][1])

\* the contents or the expiry of session s change in this step
Changed(s) == store'[s] # store[s] \/ ttl'[s] # ttl[s]

\* a session-store call of a /chat request for session s returns in this step
ChatWrites(s) ==
    \E r \in Slots :
        /\ req[r].sid = s
        /\ req[r].pc \in {"push_user", "push_bot", "expire"}
        /\ req'[r].pc # req[r].pc

\* session s is removed in this step
Deletes(s) == store[s] # << >> /\ store'[s] = << >> /\ ttl'[s] = -1

\* C20: a /chat request for session s changes only session s, a DELETE of s
\* removes only s, and nothing else changes a session: in every step at most
\* one session changes its contents or expiry, and it is the session of the
\* /chat request whose call returns or the session that is deleted.
C20_OnlyOwnSession ==
    [][\A s \in SessionIds :
          Changed(s) =>
              /\ ChatWrites(s) \/ Deletes(s)
              /\ \A o \in SessionIds \ {s} : ~Changed(o)]_vars

\* one session has been cleared of two entries while the other keeps its two
C20_Witness ==
    \E s \in SessionIds, o \in SessionIds :
        /\ s # o
        /\ cleared.sid = s /\ cleared.removed = 2
        /\ store[s] = << >>
        /\ Len(store[o]) = 2 /\ ttl[o] = TTL_SECONDS

====
